---------------------------- MODULE Spec2Model ----------------------------
(***************************************************************************)
(* A model of devanalysis.py: the VAR fitter's refinement loop             *)
(* (fit_var_model), the permutation driver (train_var_model) with the      *)
(* structural analysis it calls (do_structural_analysis, check_causality)  *)
(* and the report files both write, and the user/project orchestration     *)
(* (consolidate_dataframe, check_stationarity, analyse_user,               *)
(* analyse_project).                                                       *)
(*                                                                         *)
(* The statistics backend (statsmodels), the data provider (aggregation)   *)
(* and the plotting library are not part of the program: every value they  *)
(* return is an input, drawn from a small set, and every call into them    *)
(* may raise.                                                              *)
(*                                                                         *)
(* Three specifications share the module:                                  *)
(*   SpecFit      one call of fit_var_model;                               *)
(*   SpecTrain    one call of train_var_model, the fitter included;        *)
(*   SpecProject  one call of analyse_project, where the call of           *)
(*                train_var_model is one step that returns or raises.      *)
(***************************************************************************)
EXTENDS Integers, Sequences, FiniteSets

VARIABLES
    \* ---- fit_var_model
    fit_pc,               \* "idle", "call", "loop", "returned", "raised"
    sample_size,          \* the sample_size argument
    selected_order,       \* order_results.selected_orders[information_criterion]
    candidate_order,      \* the local candidate_order
    k_ar,                 \* training_result.k_ar, the order of the last fit
    whiteness_result,     \* whiteness_result.conclusion
    normality_result,     \* normality_result.conclusion
    lags_for_whiteness,   \* nlags of the last whiteness test
    refit_count,          \* history: iterations of the while loop so far
    every_fit_rejected,   \* history: the whiteness test rejected on every fit so far
    \* ---- train_var_model, do_structural_analysis, check_causality
    train_pc,             \* "idle", "call", "loop", "fit", "causality", "irf", "fevd",
                          \* "merge", "returned", "raised"
    variables,            \* the variables argument, a tuple of column names
    consolidated_dataframe, \* the table argument
    train_dataset,        \* the local train_dataset
    all_permutations,     \* the permutations the for loop enumerates, in order
    permutation_index,    \* the index of the permutation being handled
    result_analysis,      \* the dict result_analysis
    files,                \* the report files: permutation index -> entries
    causality_of_fit,     \* what test_causality answers for the current fit
    pair_index,           \* check_causality: pairs tested so far
    test_results,         \* check_causality: the local dict test_results
    causality_results,    \* do_structural_analysis: the local dict causality_results
    faults,               \* backend calls that raised during structural analysis
    fit_log,              \* history: the calls of fit_var_model
    reported,             \* history: the <<key, verdict>> pairs in the dicts
                          \* do_structural_analysis returned so far
    computed,             \* history: verdicts computed in the current structural analysis
    \* ---- analyse_project, analyse_user, consolidate_dataframe, check_stationarity
    project_pc,           \* "idle", "call", "loop", "user", "collect", "returned"
    all_mergers,          \* the list get_all_mergers returned
    merger_index,         \* mergers the for loop has taken so far
    merger_data,          \* the list merger_data
    user_pc,              \* analyse_user: "idle", "consolidate", "stationarity",
                          \* "train", "plot", "returned", "raised"
    raw_series,           \* the series the data provider has for the user
    data_points,          \* the local data_points
    analysis_result,      \* the dict analysis_result
    variable_index,       \* variables the stationarity loop has handled
    p_value,              \* the p-value of the last stationarity test
    var_results,          \* what train_var_model returned
    user_analysis,        \* what analyse_user returned: an Optional dict
    stages,               \* history: the stages analyse_user ran for the user
    alerts,               \* history: the "not stationary" alerts logged
    attempts              \* history: the calls of analyse_user and how each ended

fitVars == <<fit_pc, sample_size, selected_order, candidate_order, k_ar,
             whiteness_result, normality_result, lags_for_whiteness,
             refit_count, every_fit_rejected>>

trainVars == <<train_pc, variables, consolidated_dataframe, train_dataset,
               all_permutations, permutation_index, result_analysis, files, causality_of_fit,
               pair_index, test_results, causality_results, faults, fit_log,
               reported, computed>>

projectVars == <<project_pc, all_mergers, merger_index, merger_data, user_pc,
                 raw_series, data_points, analysis_result, variable_index,
                 p_value, var_results, user_analysis, stages, alerts, attempts>>

vars == <<fitVars, trainVars, projectVars>>

--------------------------------------------------------------------------
(* Values and helpers *)

\* The conclusions a hypothesis test of the backend reports.
Conclusions == {"reject", "fail to reject"}

NoValue == "none"

Max(a, b) == IF a >= b THEN a ELSE b

\* round(sqrt(n)) for a natural n: 0 for 0, else the r with r(r-1) < n <= r(r+1).
RoundSqrt(n) ==
    IF n = 0 THEN 0 ELSE CHOOSE r \in 1..n : r * (r - 1) < n /\ n <= r * (r + 1)

--------------------------------------------------------------------------
(* fit_var_model *)

\* Largest lag order the model lets order selection pick.
MaxSelectedOrder == 14

\* Sample sizes tried for the fitter on its own.
MaxSampleSize == 196

\* The order up to which the loop still refits (the literal 12 of the loop).
WhitenessOrderLimit == 12

SelectedOrders == 0..MaxSelectedOrder

\* The locals of fit_var_model outside a call of it.
FitLocalsUnset ==
    /\ selected_order = 0
    /\ candidate_order = 0
    /\ k_ar = 0
    /\ whiteness_result = NoValue
    /\ normality_result = NoValue
    /\ lags_for_whiteness = 0
    /\ refit_count = 0
    /\ every_fit_rejected = TRUE

\* Returning from (or raising out of) fit_var_model drops its locals.
FitLocalsDropped ==
    /\ selected_order' = 0
    /\ candidate_order' = 0
    /\ k_ar' = 0
    /\ whiteness_result' = NoValue
    /\ normality_result' = NoValue
    /\ lags_for_whiteness' = 0
    /\ refit_count' = 0
    /\ every_fit_rejected' = TRUE

get_lags_for_whiteness_test(size, order) == Max(RoundSqrt(size), order + 1)

\* The condition of the while loop.
RefineCondition_OffByOne(conclusion, order) ==
    conclusion = "reject" /\ order < WhitenessOrderLimit

RefineCondition(conclusion, order) ==
    conclusion = "reject" /\ order <= WhitenessOrderLimit

\* Lines 82-88: order selection, the first fit and its two tests.
FitVarModelSelect(orders) ==
    /\ fit_pc = "call"
    /\ \E order \in orders, w \in Conclusions, n \in Conclusions :
          /\ selected_order' = order
          /\ candidate_order' = order
          /\ k_ar' = order
          /\ whiteness_result' = w
          /\ normality_result' = n
          /\ lags_for_whiteness' = get_lags_for_whiteness_test(sample_size, order)
          /\ every_fit_rejected' = (w = "reject")
    /\ refit_count' = 0
    /\ fit_pc' = "loop"
    /\ UNCHANGED sample_size
    /\ UNCHANGED <<trainVars, projectVars>>

\* Lines 90-97: one iteration of the while loop.
FitVarModelRefine ==
    /\ fit_pc = "loop"
    /\ RefineCondition(whiteness_result, candidate_order)
    /\ \E w \in Conclusions, n \in Conclusions :
          /\ whiteness_result' = w
          /\ normality_result' = n
          /\ every_fit_rejected' = (every_fit_rejected /\ w = "reject")
    /\ candidate_order' = candidate_order + 1
    /\ k_ar' = candidate_order + 1
    /\ lags_for_whiteness' =
           get_lags_for_whiteness_test(sample_size, candidate_order + 1)
    /\ refit_count' = refit_count + 1
    /\ UNCHANGED <<fit_pc, sample_size, selected_order>>
    /\ UNCHANGED <<trainVars, projectVars>>

\* Lines 90, 99-103: the loop condition fails and the four results are returned.
FitVarModelReturn ==
    /\ fit_pc = "loop"
    /\ ~RefineCondition(whiteness_result, candidate_order)
    /\ fit_pc' = "returned"
    /\ UNCHANGED <<sample_size, selected_order, candidate_order, k_ar,
                   whiteness_result, normality_result, lags_for_whiteness,
                   refit_count, every_fit_rejected>>
    /\ UNCHANGED <<trainVars, projectVars>>

\* Order selection, a fit or a test of the backend raises: nothing in
\* fit_var_model catches it.
FitVarModelRaise ==
    /\ fit_pc \in {"call", "loop"}
    /\ fit_pc = "loop" => RefineCondition(whiteness_result, candidate_order)
    /\ fit_pc' = "raised"
    /\ UNCHANGED <<sample_size, selected_order, candidate_order, k_ar,
                   whiteness_result, normality_result, lags_for_whiteness,
                   refit_count, every_fit_rejected>>
    /\ UNCHANGED <<trainVars, projectVars>>

--------------------------------------------------------------------------
(* Tables, dicts and report files *)

\* The column names imported from aggregation (lines 19-20).
MERGES_PERFORMED_COLUMN == "merges_performed"
MERGES_REQUESTED_COLUMN == "merges_requested"
MERGES_SUCCESSFUL_COLUMN == "merges_successful"

AllColumns ==
    <<MERGES_PERFORMED_COLUMN, MERGES_REQUESTED_COLUMN, MERGES_SUCCESSFUL_COLUMN>>

Range(s) == {s[i] : i \in DOMAIN s}

\* s without its i-th element.
Without(s, i) == SubSeq(s, 1, i - 1) \o SubSeq(s, i + 1, Len(s))

\* The tuples of distinct columns that keep the order of AllColumns.
VariableTuples ==
    {<<AllColumns[1]>>, <<AllColumns[2]>>, <<AllColumns[3]>>,
     Without(AllColumns, 1), Without(AllColumns, 2), Without(AllColumns, 3),
     AllColumns}

\* A table is the sequence of its columns, each a name and a series of cells.
Column(name, series) == [name |-> name, series |-> series]

ColumnNames(table) == [i \in DOMAIN table |-> table[i].name]

RowCount(table) == IF table = <<>> THEN 0 ELSE Len(table[1].series)

\* The rows of the table argument of train_var_model.
ConsolidatedRows == 8

\* The table analyse_user passes: one column per variable, in the tuple's order.
DifferencedTable(vs) ==
    [i \in DOMAIN vs |->
        Column(vs[i], [r \in 1..ConsolidatedRows |-> <<vs[i], r>>])]

\* The literal of line 135.
test_observations == 6

\* table[:-k]
DropLastRows(table, k) ==
    [i \in DOMAIN table |->
        Column(table[i].name,
               SubSeq(table[i].series, 1, Max(0, Len(table[i].series) - k)))]

\* table[list(names)] selects by label: the columns named, in the order named.
HasColumns(table, names) == Range(names) \subseteq Range(ColumnNames(table))

SelectColumns_ByPosition(table, names) ==
    [i \in DOMAIN names |->
        table[CHOOSE j \in DOMAIN variables : variables[j] = names[i]]]

SelectColumns(table, names) ==
    [i \in DOMAIN names |->
        table[CHOOSE j \in DOMAIN table : table[j].name = names[i]]]

\* itertools.permutations(s): every ordering of the positions of s, in
\* lexicographic order of the positions.
RECURSIVE Flatten(_)
Flatten(ss) == IF ss = <<>> THEN <<>> ELSE Head(ss) \o Flatten(Tail(ss))

\* Only the rotations of s.
permutations_Rotations(s) ==
    [i \in DOMAIN s |-> SubSeq(s, i, Len(s)) \o SubSeq(s, 1, i - 1)]

RECURSIVE permutations(_)
permutations(s) ==
    IF s = <<>> THEN << <<>> >>
    ELSE Flatten([i \in DOMAIN s |->
             LET rest == permutations(Without(s, i))
             IN  [j \in DOMAIN rest |-> <<s[i]>> \o rest[j]]])

EmptyDict == [k \in {} |-> TRUE]

\* dict[key] = value
DictSet(dict, key, value) ==
    [k \in DOMAIN dict \cup {key} |-> IF k = key THEN value ELSE dict[k]]

\* An entry of a report file: the summary written and the run that wrote it.
ThisRun == "this run"
EarlierRun == "an earlier run"
Entry(run, text) == [run |-> run, text |-> text]

\* open(path, "a"): the file is created when missing and the position is its end.
OpenAppend(fs, path) ==
    LET content == IF path \in DOMAIN fs THEN fs[path] ELSE <<>>
    IN  [content |-> content, position |-> Len(content)]

\* file.truncate(): the file is cut at the current position.
Truncate(file) ==
    [content |-> SubSeq(file.content, 1, file.position),
     position |-> file.position]

\* file.write(text) in append mode: the text goes to the end of the file.
Write(file, text) ==
    [content |-> Append(file.content, Entry(ThisRun, text)),
     position |-> Len(file.content) + 1]

\* Leaving the with block: the file's content is what the path now holds.
Close(fs, path, file) == DictSet(fs, path, file.content)

--------------------------------------------------------------------------
(* check_causality, do_structural_analysis *)

CausalityKey(cause, effect) == cause \o "->" \o effect

\* The (cause, effect) pairs in the order of the two nested loops: the k-th
\* pair has the i-th variable as cause and, as effect, the j-th of the others.
PairAt(vs, k) ==
    LET i == ((k - 1) \div (Len(vs) - 1)) + 1
        j == ((k - 1) % (Len(vs) - 1)) + 1
    IN  <<vs[i], vs[IF j < i THEN j ELSE j + 1]>>

CausalityPairs(vs) == [k \in 1..(Len(vs) * (Len(vs) - 1)) |-> PairAt(vs, k)]

PairKeys(vs) ==
    {CausalityKey(CausalityPairs(vs)[i][1], CausalityPairs(vs)[i][2]) :
        i \in DOMAIN CausalityPairs(vs)}

\* What the causality tests of one fitted model conclude, pair by pair. Two
\* samples of the backend's answers: every pair causal, and only the pairs
\* whose cause comes before their effect in the variable tuple.
CausalityAnswers(vs) ==
    {[k \in PairKeys(vs) |-> "reject"],
     [k \in PairKeys(vs) |->
         IF \E i, j \in DOMAIN vs : i < j /\ k = CausalityKey(vs[i], vs[j])
         THEN "reject" ELSE "fail to reject"]}

\* Backend calls that may raise during the structural analyses of one run.
MaxFaults == 1

\* Lines 55-67: one causality test, its summary appended to the report file.
CheckCausalityPair ==
    /\ train_pc = "causality"
    /\ pair_index < Len(CausalityPairs(variables))
    /\ LET pair == CausalityPairs(variables)[pair_index + 1]
           key == CausalityKey(pair[1], pair[2])
           conclusion == causality_of_fit[key]
           file == OpenAppend(files, permutation_index)
       IN  /\ files' = Close(files, permutation_index,
                             Write(file, "causality " \o key))
           /\ test_results' = DictSet(test_results, key, conclusion = "reject")
           /\ computed' = DictSet(computed, key, conclusion = "reject")
    /\ pair_index' = pair_index + 1
    /\ UNCHANGED <<train_pc, variables, all_permutations, consolidated_dataframe, train_dataset,
                   permutation_index, result_analysis, causality_of_fit,
                   causality_results, faults, fit_log, reported>>
    /\ UNCHANGED <<fitVars, projectVars>>

\* Lines 55, 126-130: test_causality raises; check_causality is left without a
\* return value and the handler of do_structural_analysis takes over.
CheckCausalityRaise ==
    /\ train_pc = "causality"
    /\ pair_index < Len(CausalityPairs(variables))
    /\ faults < MaxFaults
    /\ faults' = faults + 1
    /\ train_pc' = "merge"
    /\ UNCHANGED <<variables, all_permutations, consolidated_dataframe, train_dataset,
                   permutation_index, result_analysis, files, causality_of_fit,
                   pair_index, test_results, causality_results, fit_log,
                   reported, computed>>
    /\ UNCHANGED <<fitVars, projectVars>>

\* Lines 69, 111: check_causality returns test_results, assigned to
\* causality_results.
CheckCausalityReturn ==
    /\ train_pc = "causality"
    /\ pair_index = Len(CausalityPairs(variables))
    /\ causality_results' = test_results
    /\ train_pc' = "irf"
    /\ UNCHANGED <<variables, all_permutations, consolidated_dataframe, train_dataset,
                   permutation_index, result_analysis, files, causality_of_fit,
                   pair_index, test_results, faults, fit_log, reported, computed>>
    /\ UNCHANGED <<fitVars, projectVars>>

\* Lines 113-119: the impulse response and its two plots; a raise (lines
\* 126-130) ends the analysis.
ImpulseResponse ==
    /\ train_pc = "irf"
    /\ \/ /\ train_pc' = "fevd"
          /\ UNCHANGED faults
       \/ /\ faults < MaxFaults
          /\ faults' = faults + 1
          /\ train_pc' = "merge"
    /\ UNCHANGED <<variables, all_permutations, consolidated_dataframe, train_dataset,
                   permutation_index, result_analysis, files, causality_of_fit,
                   pair_index, test_results, causality_results, fit_log,
                   reported, computed>>
    /\ UNCHANGED <<fitVars, projectVars>>

\* Lines 121-124: the variance decomposition and its plot; with or without a
\* raise (lines 126-130) the analysis ends.
VarianceDecomposition ==
    /\ train_pc = "fevd"
    /\ \/ UNCHANGED faults
       \/ /\ faults < MaxFaults
          /\ faults' = faults + 1
    /\ train_pc' = "merge"
    /\ UNCHANGED <<variables, all_permutations, consolidated_dataframe, train_dataset,
                   permutation_index, result_analysis, files, causality_of_fit,
                   pair_index, test_results, causality_results, fit_log,
                   reported, computed>>
    /\ UNCHANGED <<fitVars, projectVars>>

--------------------------------------------------------------------------
(* train_var_model *)

var_order_key == "var_order"
serial_correlation_key == "serial_correlation"
residual_white_noise_key == "residual_white_noise"

\* The lag order order selection picks in a run of train_var_model: the last
\* one the loop still refits from.
TrainSelectedOrders == {WhitenessOrderLimit}

\* dict[key].add(value)
DictAdd(dict, key, value) == [dict EXCEPT ![key] = @ \cup {value}]

\* Lines 188-193: the verdicts of one structural analysis go into result_analysis.
MergeVerdicts_Overwrite(analysis, results) ==
    [k \in DOMAIN analysis \cup DOMAIN results |->
        IF k \in DOMAIN results THEN {results[k]} ELSE analysis[k]]

MergeVerdicts(analysis, results) ==
    [k \in DOMAIN analysis \cup DOMAIN results |->
        IF k \in DOMAIN results
        THEN IF k \in DOMAIN analysis
             THEN analysis[k] \cup {results[k]}
             ELSE {results[k]}
        ELSE analysis[k]]

\* Lines 135-150: the training set is cut off and result_analysis set up.
TrainVarModelEnter ==
    /\ train_pc = "call"
    /\ train_dataset' = DropLastRows(consolidated_dataframe, test_observations)
    /\ result_analysis' =
           [k \in {"train_sample_size", var_order_key, serial_correlation_key,
                   residual_white_noise_key} |->
               IF k = "train_sample_size"
               THEN <<RowCount(DropLastRows(consolidated_dataframe,
                                            test_observations))>>
               ELSE {}]
    /\ sample_size' =
           RowCount(DropLastRows(consolidated_dataframe, test_observations))
    /\ all_permutations' = permutations(variables)
    /\ permutation_index' = 0
    /\ train_pc' = "loop"
    /\ UNCHANGED <<variables, consolidated_dataframe, files, causality_of_fit,
                   pair_index, test_results, causality_results, faults, fit_log,
                   reported, computed>>
    /\ UNCHANGED <<fit_pc, selected_order, candidate_order, k_ar,
                   whiteness_result, normality_result, lags_for_whiteness,
                   refit_count, every_fit_rejected>>
    /\ UNCHANGED projectVars

\* Lines 152-160: the next permutation, the table reordered to it, and the
\* call of fit_var_model.
TrainNextPermutation ==
    /\ train_pc = "loop"
    /\ permutation_index < Len(all_permutations)
    /\ LET permutation == all_permutations[permutation_index + 1]
       IN  IF HasColumns(train_dataset, permutation)
           THEN /\ train_dataset' = SelectColumns(train_dataset, permutation)
                /\ fit_log' = Append(fit_log,
                       [index |-> permutation_index,
                        permutation |-> permutation])
                /\ fit_pc' = "call"
                /\ train_pc' = "fit"
           ELSE \* KeyError
                /\ train_pc' = "raised"
                /\ UNCHANGED <<train_dataset, fit_log, fit_pc>>
    /\ UNCHANGED <<variables, all_permutations, consolidated_dataframe, permutation_index,
                   result_analysis, files, causality_of_fit, pair_index,
                   test_results, causality_results, faults, reported, computed>>
    /\ UNCHANGED <<sample_size, selected_order, candidate_order, k_ar,
                   whiteness_result, normality_result, lags_for_whiteness,
                   refit_count, every_fit_rejected>>
    /\ UNCHANGED projectVars

\* fit_var_model raised: train_var_model does not catch it.
TrainFitRaised ==
    /\ train_pc = "fit"
    /\ fit_pc = "raised"
    /\ train_pc' = "raised"
    /\ fit_pc' = "idle"
    /\ UNCHANGED <<variables, all_permutations, consolidated_dataframe, train_dataset,
                   permutation_index, result_analysis, files, causality_of_fit,
                   pair_index, test_results, causality_results, faults, fit_log,
                   reported, computed>>
    /\ FitLocalsDropped
    /\ UNCHANGED sample_size
    /\ UNCHANGED projectVars

\* Lines 162-183, 109-111, 51: fit_var_model returned; the report file of the
\* permutation is written, the fit's order and verdicts are added to
\* result_analysis, and do_structural_analysis and check_causality are entered.
TrainReport ==
    /\ train_pc = "fit"
    /\ fit_pc = "returned"
    /\ LET opened == Truncate(OpenAppend(files, permutation_index))
           written == Write(Write(Write(Write(opened,
                          "order selection"), "fit"), "whiteness"), "normality")
       IN  files' = Close(files, permutation_index, written)
    /\ result_analysis' =
           DictAdd(DictAdd(DictAdd(result_analysis,
               var_order_key, k_ar),
               serial_correlation_key, whiteness_result = "reject"),
               residual_white_noise_key, normality_result # "reject")
    /\ causality_of_fit' \in CausalityAnswers(variables)
    /\ causality_results' = EmptyDict
    /\ test_results' = EmptyDict
    /\ computed' = EmptyDict
    /\ pair_index' = 0
    /\ fit_pc' = "idle"
    /\ FitLocalsDropped
    /\ train_pc' = "causality"
    /\ UNCHANGED <<variables, all_permutations, consolidated_dataframe, train_dataset,
                   permutation_index, faults, fit_log, reported, sample_size>>
    /\ UNCHANGED projectVars

\* Lines 130, 185-193, 152: do_structural_analysis returns causality_results,
\* which are merged into result_analysis; the loop goes to the next index.
TrainMerge ==
    /\ train_pc = "merge"
    /\ result_analysis' = MergeVerdicts(result_analysis, causality_results)
    /\ reported' = reported \cup
           {<<k, causality_results[k]>> : k \in DOMAIN causality_results}
    /\ permutation_index' = permutation_index + 1
    /\ train_pc' = "loop"
    /\ causality_of_fit' = EmptyDict
    /\ pair_index' = 0
    /\ test_results' = EmptyDict
    /\ causality_results' = EmptyDict
    /\ computed' = EmptyDict
    /\ UNCHANGED <<variables, all_permutations, consolidated_dataframe, train_dataset, files,
                   faults, fit_log>>
    /\ UNCHANGED <<fitVars, projectVars>>

\* Line 195: the permutations are exhausted.
TrainVarModelReturn ==
    /\ train_pc = "loop"
    /\ permutation_index = Len(all_permutations)
    /\ train_pc' = "returned"
    /\ UNCHANGED <<variables, all_permutations, consolidated_dataframe, train_dataset,
                   permutation_index, result_analysis, files, causality_of_fit,
                   pair_index, test_results, causality_results, faults, fit_log,
                   reported, computed>>
    /\ UNCHANGED <<fitVars, projectVars>>

--------------------------------------------------------------------------
(* consolidate_dataframe, check_stationarity *)

\* Time buckets a raw series may have counts in.
MaxBuckets == 1

Buckets == 1..MaxBuckets

\* The buckets of a set, in ascending order.
RECURSIVE Ascending(_)
Ascending(set) ==
    IF set = {} THEN <<>>
    ELSE LET least == CHOOSE b \in set : \A c \in set : b <= c
         IN  <<least>> \o Ascending(set \ {least})

\* pd.concat(data, axis=1).fillna(0): the index is the union of the indexes of
\* the series and a series has 0 where it has no count. A raw series is given
\* as the set of buckets it has a count of 1 in.
Concat(names, raw) ==
    LET index == Ascending(UNION {raw[names[i]] : i \in DOMAIN names})
    IN  [i \in DOMAIN names |->
            Column(names[i],
                   [r \in DOMAIN index |->
                       IF index[r] \in raw[names[i]] THEN 1 ELSE 0])]

\* The frames appended to data, in the order of lines 212-233.
ConsolidatedColumns(vs) ==
    SelectSeq(AllColumns, LAMBDA c : c \in Range(vs))

\* pd.DataFrame()
EmptyDataFrame == <<>>

consolidate_dataframe_NoPerformedCheck(raw, vs) ==
    IF MERGES_SUCCESSFUL_COLUMN \in Range(vs) /\ raw[MERGES_SUCCESSFUL_COLUMN] = {}
    THEN EmptyDataFrame
    ELSE Concat(ConsolidatedColumns(vs), raw)

\* Lines 211-238.
consolidate_dataframe(raw, vs) ==
    IF MERGES_PERFORMED_COLUMN \in Range(vs) /\ raw[MERGES_PERFORMED_COLUMN] = {}
    THEN EmptyDataFrame
    ELSE IF MERGES_SUCCESSFUL_COLUMN \in Range(vs) /\
            raw[MERGES_SUCCESSFUL_COLUMN] = {}
    THEN EmptyDataFrame
    ELSE Concat(ConsolidatedColumns(vs), raw)

\* The default threshold of check_stationarity (0.05), in hundredths.
StationarityThreshold == 5

\* The p-values the unit-root test reports, in hundredths.
PValueSamples == {0, StationarityThreshold, StationarityThreshold + 1, 100}

check_stationarity_Classifying(p, threshold) == p <= threshold

\* Lines 39-46: both branches return True.
check_stationarity(p, threshold) ==
    IF p <= threshold THEN TRUE ELSE TRUE

--------------------------------------------------------------------------
(* analyse_user *)

\* An Optional[dict]: None, or a dict.
None == [is_none |-> TRUE, dict |-> EmptyDict]
Some(dict) == [is_none |-> FALSE, dict |-> dict]

\* The truth value Python gives an Optional[dict].
Truthy(value) == ~value.is_none /\ DOMAIN value.dict # {}

Sum(series) ==
    Cardinality({r \in DOMAIN series : series[r] = 1})

ColumnNamed(table, name) ==
    table[CHOOSE j \in DOMAIN table : table[j].name = name]

Digits == <<"0", "1", "2", "3", "4", "5", "6", "7", "8", "9">>

\* str(n) for a natural n.
RECURSIVE IntStr(_)
IntStr(n) ==
    IF n < 10 THEN Digits[n + 1]
    ELSE IntStr(n \div 10) \o Digits[(n % 10) + 1]

BoolStr(b) == IF b THEN "True" ELSE "False"

\* " ".join([str(value) for value in values]), the values in the order the
\* collection is iterated in; the numbers are under the first two keys.
RECURSIVE Join(_, _)
Join(key, values) ==
    LET str(v) == IF key \in {"train_sample_size", var_order_key}
                  THEN IntStr(v) ELSE BoolStr(v)
    IN  IF values = <<>> THEN ""
        ELSE IF Len(values) = 1 THEN str(values[1])
        ELSE str(values[1]) \o " " \o Join(key, Tail(values))

\* What a run of train_var_model returns (see SpecTrain), each collection as
\* the sequence it is iterated in: a run whose structural analyses all failed,
\* and a run that has verdicts for every pair.
TrainResultSamples(vs, rows) ==
    LET fixed == [k \in {"train_sample_size", var_order_key,
                         serial_correlation_key, residual_white_noise_key} |->
                     IF k = "train_sample_size" THEN <<rows>>
                     ELSE IF k = var_order_key
                     THEN <<WhitenessOrderLimit, WhitenessOrderLimit + 1>>
                     ELSE IF k = serial_correlation_key THEN <<FALSE, TRUE>>
                     ELSE <<TRUE>>]
    IN  {fixed,
         [k \in DOMAIN fixed \cup PairKeys(vs) |->
             IF k \in DOMAIN fixed THEN fixed[k] ELSE <<TRUE>>]}

UserLocalsDropped ==
    /\ data_points' = 0
    /\ analysis_result' = EmptyDict
    /\ variable_index' = 0
    /\ p_value' = 0
    /\ var_results' = EmptyDict

\* analyse_user raises: the data provider or the unit-root test raised, or
\* plotting raised something other than ValueError.
AnalyseUserRaise ==
    /\ project_pc = "user"
    /\ \/ user_pc = "consolidate"
       \/ user_pc = "stationarity" /\ variable_index < Len(variables)
       \/ user_pc = "plot"
    /\ stages' = stages \cup (IF user_pc = "consolidate" THEN {} ELSE {user_pc})
    /\ user_pc' = "raised"
    /\ UserLocalsDropped
    /\ UNCHANGED <<project_pc, all_mergers, merger_index, merger_data,
                   raw_series, user_analysis, alerts, attempts>>
    /\ UNCHANGED <<fitVars, trainVars>>

\* Lines 244-262: the series are consolidated; without rows None is returned,
\* else the record is started with the totals of the raw series.
AnalyseUserConsolidate ==
    /\ project_pc = "user"
    /\ user_pc = "consolidate"
    /\ \E raw \in [Range(variables) -> SUBSET Buckets] :
         LET consolidated == consolidate_dataframe(raw, variables)
             user_login == all_mergers[merger_index]
         IN  /\ raw_series' = raw
             /\ IF RowCount(consolidated) = 0
                THEN /\ user_analysis' = None
                     /\ user_pc' = "returned"
                     /\ UNCHANGED <<data_points, analysis_result>>
                ELSE /\ data_points' = RowCount(consolidated)
                     /\ analysis_result' =
                            [k \in {"user_login", "data_points", "index"}
                                   \cup Range(variables) |->
                                IF k = "user_login" THEN user_login
                                ELSE IF k = "data_points"
                                THEN IntStr(RowCount(consolidated))
                                ELSE IF k = "index" THEN "pull_request_index"
                                ELSE IntStr(Sum(ColumnNamed(consolidated, k).series))]
                     /\ user_pc' = "stationarity"
                     /\ UNCHANGED user_analysis
    /\ variable_index' = 0
    /\ UNCHANGED <<project_pc, all_mergers, merger_index, merger_data, p_value,
                   var_results, stages, alerts, attempts>>
    /\ UNCHANGED <<fitVars, trainVars>>

\* Lines 265-271: the stationarity of one variable is checked and recorded.
AnalyseUserStationarity ==
    /\ project_pc = "user"
    /\ user_pc = "stationarity"
    /\ variable_index < Len(variables)
    /\ \E p \in PValueSamples :
         LET variable == variables[variable_index + 1]
             is_stationary == check_stationarity(p, StationarityThreshold)
         IN  /\ p_value' = p
             /\ IF ~is_stationary
                THEN /\ alerts' = alerts \cup
                            {<<all_mergers[merger_index], variable>>}
                     /\ analysis_result' =
                            DictSet(analysis_result,
                                    variable \o "_stationary", FALSE)
                ELSE /\ analysis_result' =
                            DictSet(analysis_result,
                                    variable \o "_stationary", TRUE)
                     /\ UNCHANGED alerts
    /\ variable_index' = variable_index + 1
    /\ stages' = stages \cup {"stationarity"}
    /\ UNCHANGED <<project_pc, all_mergers, merger_index, merger_data, user_pc,
                   raw_series, data_points, var_results, user_analysis, attempts>>
    /\ UNCHANGED <<fitVars, trainVars>>

\* Lines 273-275: train_var_model is called and returns.
AnalyseUserTrain ==
    /\ project_pc = "user"
    /\ user_pc = "stationarity"
    /\ variable_index = Len(variables)
    /\ var_results' \in
           TrainResultSamples(variables,
                              Max(0, (data_points - 1) - test_observations))
    /\ stages' = stages \cup {"train"}
    /\ user_pc' = "plot"
    /\ UNCHANGED <<project_pc, all_mergers, merger_index, merger_data,
                   raw_series, data_points, analysis_result, variable_index,
                   p_value, user_analysis, alerts, attempts>>
    /\ UNCHANGED <<fitVars, trainVars>>

\* train_var_model raises.
AnalyseUserTrainRaise ==
    /\ project_pc = "user"
    /\ user_pc = "stationarity"
    /\ variable_index = Len(variables)
    /\ stages' = stages \cup {"train"}
    /\ user_pc' = "raised"
    /\ UserLocalsDropped
    /\ UNCHANGED <<project_pc, all_mergers, merger_index, merger_data,
                   raw_series, user_analysis, alerts, attempts>>
    /\ UNCHANGED <<fitVars, trainVars>>

\* Lines 277-288: the plots are built, a ValueError of theirs being caught, the
\* sets of var_results are joined into the record and the record is returned.
AnalyseUserPlotAndReturn ==
    /\ project_pc = "user"
    /\ user_pc = "plot"
    /\ user_analysis' =
           Some([k \in DOMAIN analysis_result \cup DOMAIN var_results |->
                    IF k \in DOMAIN var_results
                    THEN Join(k, var_results[k])
                    ELSE analysis_result[k]])
    /\ stages' = stages \cup {"plot"}
    /\ user_pc' = "returned"
    /\ UserLocalsDropped
    /\ UNCHANGED <<project_pc, all_mergers, merger_index, merger_data,
                   raw_series, alerts, attempts>>
    /\ UNCHANGED <<fitVars, trainVars>>

--------------------------------------------------------------------------
(* analyse_project *)

\* Mergers of a project.
MaxMergers == 2

Logins == <<"ana", "bo", "cy", "di">>

\* Lines 293-300: the index is refreshed and counted, the mergers are listed.
AnalyseProjectEnter ==
    /\ project_pc = "call"
    /\ \E n \in 0..MaxMergers : all_mergers' = SubSeq(Logins, 1, n)
    /\ merger_data' = <<>>
    /\ merger_index' = 0
    /\ project_pc' = "loop"
    /\ UNCHANGED <<user_pc, raw_series, data_points, analysis_result,
                   variable_index, p_value, var_results, user_analysis, stages,
                   alerts, attempts>>
    /\ UNCHANGED <<fitVars, trainVars>>

\* Lines 301-305: the next merger is taken and analyse_user called for it.
AnalyseProjectNextUser ==
    /\ project_pc = "loop"
    /\ merger_index < Len(all_mergers)
    /\ merger_index' = merger_index + 1
    /\ project_pc' = "user"
    /\ user_pc' = "consolidate"
    /\ user_analysis' = None
    /\ stages' = {}
    /\ UNCHANGED <<all_mergers, merger_data, raw_series, data_points,
                   analysis_result, variable_index, p_value, var_results,
                   alerts, attempts>>
    /\ UNCHANGED <<fitVars, trainVars>>

\* Lines 306-307: a row is kept when user_analysis is true.
CollectRow_Always(data, value) == Append(data, value.dict)

CollectRow(data, value) ==
    IF Truthy(value) THEN Append(data, value.dict) ELSE data

\* Lines 303-307: analyse_user returned.
AnalyseProjectCollect ==
    /\ project_pc = "user"
    /\ user_pc = "returned"
    /\ merger_data' = CollectRow(merger_data, user_analysis)
    /\ attempts' = Append(attempts,
           [user_login |-> all_mergers[merger_index],
            outcome |-> IF user_analysis.is_none THEN "none" ELSE "record"])
    /\ user_pc' = "idle"
    /\ project_pc' = "loop"
    /\ raw_series' = EmptyDict
    /\ UNCHANGED <<all_mergers, merger_index, data_points,
                   analysis_result, variable_index, p_value, var_results,
                   user_analysis, stages, alerts>>
    /\ UNCHANGED <<fitVars, trainVars>>

\* Lines 308-310: analyse_user raised; the exception is logged.
AnalyseProjectExcept ==
    /\ project_pc = "user"
    /\ user_pc = "raised"
    /\ attempts' = Append(attempts,
           [user_login |-> all_mergers[merger_index], outcome |-> "raised"])
    /\ user_pc' = "idle"
    /\ project_pc' = "loop"
    /\ raw_series' = EmptyDict
    /\ UNCHANGED <<all_mergers, merger_index, merger_data,
                   data_points, analysis_result, variable_index, p_value,
                   var_results, user_analysis, stages, alerts>>
    /\ UNCHANGED <<fitVars, trainVars>>

\* Lines 312-313: the table is built from merger_data and returned.
AnalyseProjectReturn ==
    /\ project_pc = "loop"
    /\ merger_index = Len(all_mergers)
    /\ project_pc' = "returned"
    /\ UNCHANGED <<all_mergers, merger_index, merger_data, user_pc, raw_series,
                   data_points, analysis_result, variable_index, p_value,
                   var_results, user_analysis, stages, alerts, attempts>>
    /\ UNCHANGED <<fitVars, trainVars>>

--------------------------------------------------------------------------
(* Specifications *)

TrainLocalsUnset ==
    /\ train_dataset = <<>>
    /\ all_permutations = <<>>
    /\ permutation_index = 0
    /\ result_analysis = EmptyDict
    /\ causality_of_fit = EmptyDict
    /\ pair_index = 0
    /\ test_results = EmptyDict
    /\ causality_results = EmptyDict
    /\ faults = 0
    /\ fit_log = <<>>
    /\ reported = {}
    /\ computed = EmptyDict

TrainIdle ==
    /\ train_pc = "idle"
    /\ variables = <<>>
    /\ consolidated_dataframe = <<>>
    /\ files = EmptyDict
    /\ TrainLocalsUnset

ProjectIdle ==
    /\ project_pc = "idle"
    /\ all_mergers = <<>>
    /\ merger_index = 0
    /\ merger_data = <<>>
    /\ user_pc = "idle"
    /\ raw_series = EmptyDict
    /\ data_points = 0
    /\ analysis_result = EmptyDict
    /\ variable_index = 0
    /\ p_value = 0
    /\ var_results = EmptyDict
    /\ user_analysis = None
    /\ stages = {}
    /\ alerts = {}
    /\ attempts = <<>>

\* One call of fit_var_model.
InitFit ==
    /\ fit_pc = "call"
    /\ sample_size \in {0, MaxSampleSize}
    /\ FitLocalsUnset
    /\ TrainIdle
    /\ ProjectIdle

NextFit ==
    \/ FitVarModelSelect(SelectedOrders)
    \/ FitVarModelRefine
    \/ FitVarModelReturn
    \/ FitVarModelRaise

SpecFit == InitFit /\ [][NextFit]_vars

\* The report an earlier, undisturbed run of train_var_model left in a file.
EarlierReport(vs) ==
    [i \in 1..(4 + Len(CausalityPairs(vs))) |->
        Entry(EarlierRun,
              IF i = 1 THEN "order selection"
              ELSE IF i = 2 THEN "fit"
              ELSE IF i = 3 THEN "whiteness"
              ELSE IF i = 4 THEN "normality"
              ELSE "causality " \o CausalityKey(CausalityPairs(vs)[i - 4][1],
                                               CausalityPairs(vs)[i - 4][2]))]

\* One call of train_var_model, for a user analysed for the first time (no
\* report files) or analysed before (the files of that run are there).
InitTrain ==
    /\ train_pc = "call"
    /\ variables \in VariableTuples
    /\ consolidated_dataframe = DifferencedTable(variables)
    /\ files \in {EmptyDict,
                  [i \in 0..(Len(permutations(variables)) - 1) |->
                      EarlierReport(variables)]}
    /\ TrainLocalsUnset
    /\ fit_pc = "idle"
    /\ sample_size = 0
    /\ FitLocalsUnset
    /\ ProjectIdle

NextTrain ==
    \/ TrainVarModelEnter
    \/ TrainNextPermutation
    \/ FitVarModelSelect(TrainSelectedOrders)
    \/ FitVarModelRefine
    \/ FitVarModelReturn
    \/ FitVarModelRaise
    \/ TrainFitRaised
    \/ TrainReport
    \/ CheckCausalityPair
    \/ CheckCausalityRaise
    \/ CheckCausalityReturn
    \/ ImpulseResponse
    \/ VarianceDecomposition
    \/ TrainMerge
    \/ TrainVarModelReturn

SpecTrain == InitTrain /\ [][NextTrain]_vars

\* One call of analyse_project.
InitProject ==
    /\ project_pc = "call"
    /\ variables \in VariableTuples
    /\ all_mergers = <<>>
    /\ merger_index = 0
    /\ merger_data = <<>>
    /\ user_pc = "idle"
    /\ raw_series = EmptyDict
    /\ data_points = 0
    /\ analysis_result = EmptyDict
    /\ variable_index = 0
    /\ p_value = 0
    /\ var_results = EmptyDict
    /\ user_analysis = None
    /\ stages = {}
    /\ alerts = {}
    /\ attempts = <<>>
    /\ train_pc = "idle"
    /\ consolidated_dataframe = <<>>
    /\ files = EmptyDict
    /\ TrainLocalsUnset
    /\ fit_pc = "idle"
    /\ sample_size = 0
    /\ FitLocalsUnset

NextProject ==
    \/ AnalyseProjectEnter
    \/ AnalyseProjectNextUser
    \/ AnalyseUserConsolidate
    \/ AnalyseUserStationarity
    \/ AnalyseUserTrain
    \/ AnalyseUserTrainRaise
    \/ AnalyseUserPlotAndReturn
    \/ AnalyseUserRaise
    \/ AnalyseProjectCollect
    \/ AnalyseProjectExcept
    \/ AnalyseProjectReturn

SpecProject == InitProject /\ [][NextProject]_vars

--------------------------------------------------------------------------
(* The fitter's refinement loop *)

\* C1 (as claimed): when the whiteness test rejected on every fit,
\* fit_var_model returns with candidate_order above 12 after at most
\* 13 - initial_order iterations of the loop, whatever order was selected.
C1_AtMost13MinusInitial ==
    (fit_pc = "returned" /\ every_fit_rejected) =>
        /\ candidate_order > WhitenessOrderLimit
        /\ refit_count <= (WhitenessOrderLimit + 1) - selected_order

\* C1 (amended): while the whiteness test rejects on every fit the loop has run
\* candidate_order - initial_order times and candidate_order has not passed
\* max(13, initial_order); fit_var_model returns exactly at that order, after
\* max(0, 13 - initial_order) iterations.
C1_StopsAboveLimit ==
    (fit_pc \in {"loop", "returned"} /\ every_fit_rejected) =>
        /\ refit_count = candidate_order - selected_order
        /\ candidate_order <= Max(WhitenessOrderLimit + 1, selected_order)
        /\ fit_pc = "returned" =>
              /\ candidate_order = Max(WhitenessOrderLimit + 1, selected_order)
              /\ refit_count =
                     Max(0, (WhitenessOrderLimit + 1) - selected_order)

\* The loop ran from order 0 to 13 with the whiteness test rejecting each time.
C1_Witness ==
    /\ fit_pc = "returned"
    /\ every_fit_rejected
    /\ selected_order = 0
    /\ refit_count = WhitenessOrderLimit + 1

--------------------------------------------------------------------------
(* The permutation driver *)

RECURSIVE Factorial(_)
Factorial(n) == IF n = 0 THEN 1 ELSE n * Factorial(n - 1)

\* Every arrangement of the variables of vs.
Orderings(vs) ==
    {p \in [DOMAIN vs -> Range(vs)] :
        \A i, j \in DOMAIN vs : i # j => p[i] # p[j]}

WrittenByThisRun(content, text) ==
    Cardinality({i \in DOMAIN content : content[i] = Entry(ThisRun, text)})

\* C2: when train_var_model returns, fit_var_model was called once for each
\* permutation of the variables, N! times, with the indexes 0..N!-1 in order,
\* and each index has its report file, written once in this run.
C2_OneFitPerPermutation ==
    train_pc = "returned" =>
        LET count == Factorial(Len(variables))
        IN  /\ Len(fit_log) = count
            /\ \A k \in DOMAIN fit_log : fit_log[k].index = k - 1
            /\ {fit_log[k].permutation : k \in DOMAIN fit_log} =
                   Orderings(variables)
            /\ \A k, l \in DOMAIN fit_log :
                   k # l => fit_log[k].permutation # fit_log[l].permutation
            /\ DOMAIN files = 0..(count - 1)
            /\ \A i \in DOMAIN files :
                   WrittenByThisRun(files[i], "order selection") = 1

\* Three variables: six fits, six report files.
C2_Witness ==
    /\ train_pc = "returned"
    /\ Len(variables) = 3
    /\ Len(fit_log) = 6
    /\ Cardinality(DOMAIN files) = 6

FixedKeys ==
    {"train_sample_size", var_order_key, serial_correlation_key,
     residual_white_noise_key}

\* C3: the set result_analysis holds for a causality key is exactly the set of
\* verdicts the structural analyses of the permutations returned for that key;
\* a key is there as soon as one verdict was returned for it.
C3_VerdictsAccumulate ==
    /\ DOMAIN result_analysis \ FixedKeys = {r[1] : r \in reported}
    /\ \A k \in DOMAIN result_analysis \ FixedKeys :
           result_analysis[k] = {r[2] : r \in {q \in reported : q[1] = k}}

\* One permutation returned a key as causal and another as not causal.
C3_Witness ==
    \E k \in DOMAIN result_analysis \ FixedKeys :
        /\ <<k, TRUE>> \in reported
        /\ <<k, FALSE>> \in reported
        /\ result_analysis[k] = {TRUE, FALSE}

\* C4 (as claimed): whatever raised during the structural analysis, the dict
\* do_structural_analysis returns holds every verdict computed before the
\* failure.
C4_ComputedVerdictsReturned ==
    train_pc = "merge" => causality_results = computed

\* C9 (as claimed): once a permutation is handled, its report file holds
\* entries of this run only.
C9_ReportHoldsThisRunOnly ==
    train_pc = "merge" =>
        \A i \in DOMAIN files[permutation_index] :
            files[permutation_index][i].run = ThisRun

\* The training set as cut off on entry (line 136).
InitialTrainingSet == DropLastRows(consolidated_dataframe, test_observations)

\* C10: the table given to the fitter has the columns of the current
\* permutation, in its order, which are all the variables, and each column
\* holds the rows it had in the initial training set.
C10_ReorderDoesNotLeak ==
    train_pc = "fit" =>
        /\ ColumnNames(train_dataset) = all_permutations[permutation_index + 1]
        /\ Range(ColumnNames(train_dataset)) = Range(variables)
        /\ Len(train_dataset) = Len(variables)
        /\ \A i \in DOMAIN train_dataset :
               \E j \in DOMAIN InitialTrainingSet :
                   /\ InitialTrainingSet[j].name = train_dataset[i].name
                   /\ InitialTrainingSet[j].series = train_dataset[i].series
        /\ RowCount(train_dataset) = RowCount(InitialTrainingSet)

\* A later permutation, reordered from an already reordered table.
C10_Witness ==
    /\ train_pc = "fit"
    /\ permutation_index >= 2
    /\ ColumnNames(train_dataset) # variables
    /\ ColumnNames(train_dataset) = all_permutations[permutation_index + 1]
    /\ RowCount(train_dataset) > 0

--------------------------------------------------------------------------
(* The user and project orchestration *)

Logged(field) == [i \in DOMAIN attempts |-> attempts[i][field]]

\* C5: when analyse_project returns, analyse_user was called for every merger,
\* in the order of the list, whatever a call raised, and the table has one row
\* for each call that returned a record, in that order, and no other row.
C5_OneFailureNeverAborts ==
    project_pc = "returned" =>
        LET with_record == SelectSeq(attempts, LAMBDA a : a.outcome = "record")
        IN  /\ Logged("user_login") = all_mergers
            /\ Len(merger_data) = Len(with_record)
            /\ \A i \in DOMAIN merger_data :
                   merger_data[i]["user_login"] = with_record[i].user_login

\* The first merger's analysis raised and the second one's returned a record.
C5_Witness ==
    /\ project_pc = "returned"
    /\ Len(attempts) = 2
    /\ attempts[1].outcome = "raised"
    /\ attempts[2].outcome = "record"
    /\ Len(merger_data) = 1
    /\ merger_data[1]["user_login"] = all_mergers[2]

NoPerformedRecords ==
    /\ MERGES_PERFORMED_COLUMN \in DOMAIN raw_series
    /\ raw_series[MERGES_PERFORMED_COLUMN] = {}

\* C6: for a user without merges-performed records, that variable being
\* requested, analyse_user returns None, does not raise, and runs neither the
\* stationarity check nor the VAR fitting nor the plotting.
C6_NoPerformedRecordsReturnsNone ==
    (project_pc = "user" /\ NoPerformedRecords) =>
        /\ user_pc = "returned"
        /\ user_analysis = None
        /\ stages = {}

\* Such a user, who has records of another requested variable.
C6_Witness ==
    /\ project_pc = "user"
    /\ NoPerformedRecords
    /\ \E c \in DOMAIN raw_series : raw_series[c] # {}
    /\ user_pc = "returned"
    /\ user_analysis = None

\* C7 (as claimed): whenever the raw series of a requested variable is empty,
\* consolidate_dataframe returns a table without rows.
C7_EmptyWhenAnySeriesEmpty ==
    (project_pc = "user" /\ \E c \in DOMAIN raw_series : raw_series[c] = {}) =>
        RowCount(consolidate_dataframe(raw_series, variables)) = 0

StationaryFlags == {AllColumns[i] \o "_stationary" : i \in DOMAIN AllColumns}

\* C8: check_stationarity returns true at, below and above the threshold: every
\* stationarity flag in a record is True and the "not stationary" alert is
\* never logged.
C8_AlwaysStationary ==
    /\ alerts = {}
    /\ \A p \in PValueSamples : check_stationarity(p, StationarityThreshold)
    /\ \A k \in DOMAIN analysis_result \cap StationaryFlags : analysis_result[k]
    /\ \A i \in DOMAIN merger_data :
           \A k \in DOMAIN merger_data[i] \cap StationaryFlags : merger_data[i][k]

\* A variable whose p-value was above the threshold has its flag set to True.
C8_Witness ==
    /\ user_pc = "stationarity"
    /\ variable_index > 0
    /\ p_value > StationarityThreshold
    /\ analysis_result[variables[variable_index] \o "_stationary"] = TRUE

==========================================================================
